---- MODULE Spec2Model ----
(***************************************************************************)
(* Candidate collection of a completion source: Source.getResults and      *)
(* firstMatchFuzzy of src/src/handler/typeHierarchy.ts (lines 145-357).    *)
(*                                                                         *)
(* Strings are sequences of UTF-16 code units (natural numbers).  The      *)
(* program runs on one JavaScript thread: getResults runs without          *)
(* interruption from its call to its first `await waitImmediate()`, and    *)
(* from every resumption to the next await or to its return.  Event        *)
(* handlers (CompleteDone) and the owner of the cancellation token run     *)
(* only while no scan is executing: before a call, after a return, or      *)
(* while the scan is suspended at the await.                                *)
(*                                                                         *)
(* The iterables are consumed lazily (for..of): what the next call of an   *)
(* iterator yields is an input, chosen when the loop asks for it.          *)
(***************************************************************************)
EXTENDS Integers, Sequences, FiniteSets, TLC

(***************************************************************************)
(* Program constants.                                                      *)
(***************************************************************************)
WORD_PREFIXES == {95, 36, 45}          \* ['_', '$', '-'] as code units
WORD_PREFIXES_CODE == {95, 36, 45}
ASCII_END == 128
MAX_DURATION == 80
MAX_COUNT == 50
SLICE == 15                            \* `curr - prev > 15`

(***************************************************************************)
(* Bounds of the model.                                                    *)
(* CHECK_INTERVAL stands for the literal 100 of `i % 100 === 0`: the       *)
(* periodic check happens at every CHECK_INTERVAL-th candidate.  The model *)
(* takes a small interval so that scans reach the check, and two of them.  *)
(***************************************************************************)
CHECK_INTERVAL == 3
MaxDraw == 6                           \* candidates drawn by one scan
MaxIter == 2                           \* iterables passed to one scan

NaN == -1                              \* ''.charCodeAt(0)

(***************************************************************************)
(* Words.                                                                  *)
(***************************************************************************)
W_f == <<102>>                         \* "f"
W_us == <<95>>                         \* "_"
W_foo == <<102, 111, 111>>             \* "foo"
W_far == <<102, 97, 114>>              \* "far"
W_bar == <<98, 97, 114>>               \* "bar"
W_fo == <<102, 111>>                   \* "fo"
W_b == <<98>>                          \* "b"
Empty == << >>                         \* ""

\* what the iterables can yield: a one-character word, which is also a
\* prefix character, and three longer words
Vocabulary == {W_us, W_foo, W_far, W_bar}
\* the `input` argument, of length >= 1
Inputs == {W_f, W_fo, W_b}
\* the `exclude` argument
Excludes == {Empty, W_foo}

\* Words accepted from earlier sources, none of them yielded by the iterables:
\* "s" followed by one more code unit.
SeedWord(k) == <<115, 200 + k>>
Seed(n) == {SeedWord(k) : k \in 1..n}
\* the `items` argument on entry: empty, holding a word of the iterables, or
\* pre-seeded around MAX_COUNT
SeedItems == {{}, {W_foo}, Seed(MAX_COUNT - 1), Seed(MAX_COUNT)}

\* Date.now() read at a periodic check, in time units since the scan began
TimePoints == {SLICE, SLICE + 1, MAX_DURATION, MAX_DURATION + 1}

(***************************************************************************)
(* getCharCodes, caseMatch and fuzzyMatch of ../util/fuzzy and the         *)
(* unidecode package (imports of lines 147 and 153), as section 4.1 of the *)
(* specification describes them.                                           *)
(***************************************************************************)
IsUpper(c) == c \in 65..90
ToLower(c) == IF IsUpper(c) THEN c + 32 ELSE c

\* the input reduced to lowercase-normalized character codes
getCharCodes(str) == [k \in DOMAIN str |-> ToLower(str[k])]

\* equal, or an uppercase/lowercase pair
caseMatch(input, code) ==
    \/ input = code
    \/ IsUpper(input) /\ code = input + 32
    \/ IsUpper(code) /\ input = code + 32

\* the transliteration of one character
unidecodeChar(c) ==
    IF c < 128 THEN <<c>>
    ELSE IF c = 233 THEN <<101>>       \* e with acute accent -> "e"
    ELSE IF c = 230 THEN <<97, 101>>   \* ae ligature -> "ae"
    ELSE << >>

RECURSIVE unidecode(_)
unidecode(str) ==
    IF str = << >> THEN << >>
    ELSE unidecodeChar(Head(str)) \o unidecode(Tail(str))

\* every code of `needle`, in order, appears in `text`, in order
RECURSIVE fuzzyFrom(_, _, _, _)
fuzzyFrom(needle, text, n, j) ==
    IF n > Len(needle) THEN TRUE
    ELSE IF j > Len(text) THEN FALSE
    ELSE IF caseMatch(needle[n], text[j])
         THEN fuzzyFrom(needle, text, n + 1, j + 1)
         ELSE fuzzyFrom(needle, text, n, j + 1)

fuzzyMatch(needle, text) ==
    /\ text # << >>
    /\ fuzzyFrom(needle, text, 1, 1)

\* str.charCodeAt(0)
charCodeAt0(str) == IF str = << >> THEN NaN ELSE str[1]

(***************************************************************************)
(* firstMatchFuzzy (lines 352-357).  word[1] of a one-character word is    *)
(* undefined, and undefined.charCodeAt throws a TypeError.                 *)
(***************************************************************************)
firstMatchFuzzySkipsAnyInput(firstCode, ascii, word) ==
    ascii /\ word[1] \in WORD_PREFIXES

firstMatchFuzzySkips(firstCode, ascii, word) ==
    ascii /\ firstCode \notin WORD_PREFIXES_CODE /\ word[1] \in WORD_PREFIXES

firstMatchFuzzyThrows(firstCode, ascii, word) ==
    firstMatchFuzzySkips(firstCode, ascii, word) /\ Len(word) < 2

\* `ch` before line 355, for a call that does not throw
firstMatchFuzzyCh(firstCode, ascii, word) ==
    IF firstMatchFuzzySkips(firstCode, ascii, word) THEN <<word[2]>> ELSE <<word[1]>>

\* `ch` after line 355, for a call that does not throw
firstMatchFuzzyCompared(firstCode, ascii, word) ==
    LET ch0 == firstMatchFuzzyCh(firstCode, ascii, word)
    IN  IF ascii /\ ch0[1] > ASCII_END THEN unidecode(ch0) ELSE ch0

firstMatchFuzzy(firstCode, ascii, word) ==
    /\ ~firstMatchFuzzyThrows(firstCode, ascii, word)
    /\ caseMatch(firstCode,
                 charCodeAt0(firstMatchFuzzyCompared(firstCode, ascii, word)))

\* what a call of firstMatchFuzzy ends in
firstMatchFuzzyOutcome(firstCode, ascii, word) ==
    IF firstMatchFuzzyThrows(firstCode, ascii, word) THEN "TypeError"
    ELSE IF firstMatchFuzzy(firstCode, ascii, word) THEN "true"
    ELSE "false"

(***************************************************************************)
(* The steps of the loop body of getResults (lines 320-341).               *)
(***************************************************************************)
\* line 320
CheckDueAfter(n) == n % CHECK_INTERVAL = 1

CheckDue(n) == n % CHECK_INTERVAL = 0
\* line 322
ShouldYieldAtSlice(c, p) == c - p >= SLICE

ShouldYield(c, p) == c - p > SLICE
\* line 326, with the token left out
ShouldStopTimeOnly(cancelled, c, s) == c - s > MAX_DURATION
\* line 326
ShouldStopTokenOnly(cancelled, c, s) == cancelled

ShouldStop(cancelled, c, s) == cancelled \/ c - s > MAX_DURATION
\* line 328, without the test of noMatchWords
SkipRuleNoMemory(word, exc, its, nm) ==
    Len(word) <= 1 \/ word = exc \/ word \in its
\* line 328, without the test of exclude
SkipRuleNoExclude(word, exc, its, nm) ==
    Len(word) <= 1 \/ word \in its \/ word \in nm
\* line 328
SkipRuleNoLength(word, exc, its, nm) ==
    word = exc \/ word \in its \/ word \in nm

SkipRule(word, exc, its, nm) ==
    Len(word) <= 1 \/ word = exc \/ word \in its \/ word \in nm
\* line 334: the text handed to fuzzyMatch
FuzzyText(ascii, word) ==
    IF ascii /\ word[1] > ASCII_END THEN unidecode(word) ELSE word
\* line 341, off by one
CapReachedLate(its) == Cardinality(its) = MAX_COUNT + 1
\* line 341
CapReached(its) == Cardinality(its) = MAX_COUNT

\* lines 328-340 with `len > 1` of line 333 left out
ExamineFuzzyAlways(word, inp, exc, fm, its, nm) ==
    LET firstCode == inp[1]
        ascii == firstCode < ASCII_END
        codes == getCharCodes(inp)
    IN  IF SkipRule(word, exc, its, nm)
        THEN [kind |-> "skip", first |-> FALSE, fuzzy |-> FALSE]
        ELSE IF fm /\ firstMatchFuzzyThrows(firstCode, ascii, word)
        THEN [kind |-> "throw", first |-> TRUE, fuzzy |-> FALSE]
        ELSE IF fm /\ ~firstMatchFuzzy(firstCode, ascii, word)
        THEN [kind |-> "nofirst", first |-> TRUE, fuzzy |-> FALSE]
        ELSE IF ~fuzzyMatch(codes, FuzzyText(ascii, word))
        THEN [kind |-> "nofuzzy", first |-> fm, fuzzy |-> TRUE]
        ELSE [kind |-> "add", first |-> fm, fuzzy |-> TRUE]

\* Lines 328-340 for one candidate: what becomes of it ("throw": the call of
\* firstMatchFuzzy throws and the promise of getResults is rejected), and
\* which of the two matchers were called on it.
ExamineFirstSingleOnly(word, inp, exc, fm, its, nm) ==
    LET firstCode == inp[1]
        ascii == firstCode < ASCII_END
        codes == getCharCodes(inp)
    IN  IF SkipRule(word, exc, its, nm)
        THEN [kind |-> "skip", first |-> FALSE, fuzzy |-> FALSE]
        ELSE IF fm /\ firstMatchFuzzyThrows(firstCode, ascii, word)
        THEN [kind |-> "throw", first |-> TRUE, fuzzy |-> FALSE]
        ELSE IF fm /\ Len(inp) = 1 /\ ~firstMatchFuzzy(firstCode, ascii, word)
        THEN [kind |-> "nofirst", first |-> TRUE, fuzzy |-> FALSE]
        ELSE IF Len(inp) > 1 /\ ~fuzzyMatch(codes, FuzzyText(ascii, word))
        THEN [kind |-> "nofuzzy", first |-> fm, fuzzy |-> TRUE]
        ELSE [kind |-> "add", first |-> fm, fuzzy |-> Len(inp) > 1]

Examine(word, inp, exc, fm, its, nm) ==
    LET firstCode == inp[1]
        ascii == firstCode < ASCII_END
        codes == getCharCodes(inp)
    IN  IF SkipRule(word, exc, its, nm)
        THEN [kind |-> "skip", first |-> FALSE, fuzzy |-> FALSE]
        ELSE IF fm /\ firstMatchFuzzyThrows(firstCode, ascii, word)
        THEN [kind |-> "throw", first |-> TRUE, fuzzy |-> FALSE]
        ELSE IF fm /\ ~firstMatchFuzzy(firstCode, ascii, word)
        THEN [kind |-> "nofirst", first |-> TRUE, fuzzy |-> FALSE]
        ELSE IF Len(inp) > 1 /\ ~fuzzyMatch(codes, FuzzyText(ascii, word))
        THEN [kind |-> "nofuzzy", first |-> fm, fuzzy |-> TRUE]
        ELSE [kind |-> "add", first |-> fm, fuzzy |-> Len(inp) > 1]

(***************************************************************************)
(* State.                                                                  *)
(***************************************************************************)
VARIABLES
    noMatchWords,   \* Source.noMatchWords
    pc,             \* "idle", "loop" (running), "await" (suspended), "done"
                    \* (returned), "error" (rejected)
    input,          \* arguments of the call
    exclude,
    items,
    token,          \* token.isCancellationRequested
    firstMatch,     \* locals of the call
    start,
    prev,
    curr,           \* the last reading of Date.now()
    i,
    iter,           \* iterables entered by the outer loop
    w,              \* the candidate held across the await
    result,         \* the value returned
    exit,           \* the return statement taken: "count", "check", "end"
    ev,             \* what the last step did to the candidate it drew
    drawn,          \* words the iterables have yielded in this call
    items0,         \* items on entry
    token0,         \* the token on entry
    sinceClear,     \* words yielded in this call since noMatchWords was
                    \* last cleared
    session,        \* the calls since noMatchWords was last cleared:
                    \* "fresh" (none), "ext" (each input extends the one
                    \* before, firstMatch unchanged), "mixed" (otherwise)
    wake,           \* the time at which the scan last resumed from the
                    \* await (the time it began, before that); the scan
                    \* does not read the clock there
    call            \* a call of one of the functions on its own: its
                    \* arguments and what it came to

vars == <<noMatchWords, pc, input, exclude, items, token, firstMatch, start,
          prev, curr, i, iter, w, result, exit, ev, drawn, items0, token0,
          sinceClear, session, wake, call>>

locals == <<input, exclude, firstMatch, start, items0, token0, session>>

NoCall == [fn |-> "none"]

NoEvent == [w |-> Empty, kind |-> "none", first |-> FALSE, fuzzy |-> FALSE]

IsPrefix(p, q) == Len(p) <= Len(q) /\ SubSeq(q, 1, Len(p)) = p

\* the source after its construction: no scan has been called
Constructed ==
    /\ noMatchWords = {}
    /\ pc = "idle"
    /\ input = W_f
    /\ exclude = Empty
    /\ items = {}
    /\ token = FALSE
    /\ firstMatch = TRUE
    /\ start = 0
    /\ prev = 0
    /\ curr = 0
    /\ i = 0
    /\ iter = 0
    /\ w = Empty
    /\ result = FALSE
    /\ exit = "none"
    /\ ev = NoEvent
    /\ drawn = {}
    /\ items0 = {}
    /\ token0 = FALSE
    /\ sinceClear = {}
    /\ session = "fresh"
    /\ wake = 0

Init ==
    /\ Constructed
    /\ call = NoCall

(***************************************************************************)
(* getResults is called (lines 308-316).  Times are counted from the       *)
(* reading of Date.now() at line 310.                                      *)
(***************************************************************************)
Call(inp, exc, seed, fm, tk) ==
    /\ input' = inp
    /\ exclude' = exc
    /\ items' = seed
    /\ items0' = seed
    /\ firstMatch' = fm
    /\ token' = tk
    /\ token0' = tk
    /\ session' = IF session = "fresh"
                     \/ (session = "ext" /\ IsPrefix(input, inp) /\ firstMatch = fm)
                  THEN "ext" ELSE "mixed"
    /\ start' = 0
    /\ prev' = 0
    /\ curr' = 0
    /\ i' = 0
    /\ iter' = 0
    /\ w' = Empty
    /\ result' = FALSE
    /\ exit' = "none"
    /\ ev' = NoEvent
    /\ drawn' = {}
    /\ sinceClear' = {}
    /\ pc' = "loop"
    /\ wake' = 0
    /\ UNCHANGED <<noMatchWords, call>>

\* the first call on a new source
StartScan ==
    /\ pc = "idle"
    /\ \E inp \in Inputs, exc \in Excludes, seed \in SeedItems,
          fm \in BOOLEAN, tk \in BOOLEAN :
          Call(inp, exc, seed, fm, tk)

\* `return true` of line 326
StopAtCheck ==
    /\ pc' = "done"
    /\ result' = TRUE
    /\ exit' = "check"
    /\ ev' = NoEvent
    /\ UNCHANGED <<items, noMatchWords>>

\* lines 328-341 with the sets assigned instead of added to
ExamineCandidateAssign(word) ==
    LET e == Examine(word, input, exclude, firstMatch, items, noMatchWords)
    IN  /\ ev' = [w |-> word, kind |-> e.kind, first |-> e.first, fuzzy |-> e.fuzzy]
        /\ noMatchWords' = IF e.kind \in {"nofirst", "nofuzzy"}
                           THEN {word} ELSE noMatchWords
        /\ items' = IF e.kind = "add" THEN {word} ELSE items
        /\ IF e.kind = "add" /\ CapReached(items')
           THEN pc' = "done" /\ result' = TRUE /\ exit' = "count"
           ELSE /\ pc' = IF e.kind = "throw" THEN "error" ELSE "loop"
                /\ UNCHANGED <<result, exit>>

\* lines 328-341 with the noMatchWords.add of lines 330 and 336 left out
ExamineCandidateNoRecord(word) ==
    LET e == Examine(word, input, exclude, firstMatch, items, noMatchWords)
    IN  /\ ev' = [w |-> word, kind |-> e.kind, first |-> e.first, fuzzy |-> e.fuzzy]
        /\ noMatchWords' = noMatchWords
        /\ items' = IF e.kind = "add" THEN items \cup {word} ELSE items
        /\ IF e.kind = "add" /\ CapReached(items')
           THEN pc' = "done" /\ result' = TRUE /\ exit' = "count"
           ELSE /\ pc' = IF e.kind = "throw" THEN "error" ELSE "loop"
                /\ UNCHANGED <<result, exit>>

\* lines 328-341 on candidate `word`
ExamineCandidate(word) ==
    LET e == Examine(word, input, exclude, firstMatch, items, noMatchWords)
    IN  /\ ev' = [w |-> word, kind |-> e.kind, first |-> e.first, fuzzy |-> e.fuzzy]
        /\ noMatchWords' = IF e.kind \in {"nofirst", "nofuzzy"}
                           THEN noMatchWords \cup {word} ELSE noMatchWords
        /\ items' = IF e.kind = "add" THEN items \cup {word} ELSE items
        /\ IF e.kind = "add" /\ CapReached(items')
           THEN pc' = "done" /\ result' = TRUE /\ exit' = "count"
           ELSE /\ pc' = IF e.kind = "throw" THEN "error" ELSE "loop"
                /\ UNCHANGED <<result, exit>>

\* One iteration of the inner loop that does not suspend: the iterator yields
\* `word`; lines 319-341.
Step ==
    /\ pc = "loop"
    /\ iter >= 1
    /\ i < MaxDraw
    /\ \E word \in Vocabulary :
          /\ i' = i + 1
          /\ drawn' = drawn \cup {word}
          /\ sinceClear' = sinceClear \cup {word}
          /\ IF CheckDue(i')
             THEN \E t \in TimePoints :
                    /\ t >= curr
                    /\ t >= wake
                    /\ ~ShouldYield(t, prev)
                    /\ curr' = t
                    /\ IF ShouldStop(token, t, start)
                       THEN StopAtCheck
                       ELSE ExamineCandidate(word)
             ELSE /\ curr' = curr
                  /\ ExamineCandidate(word)
    /\ UNCHANGED <<prev, w, iter, token, wake, call>>
    /\ UNCHANGED locals

\* The iterator yields `word`, the check is due and the slice is used up:
\* lines 319-323, up to the await.
Yield ==
    /\ pc = "loop"
    /\ iter >= 1
    /\ i < MaxDraw
    /\ CheckDue(i + 1)
    /\ \E word \in Vocabulary, t \in TimePoints :
          /\ t >= curr
          /\ t >= wake
          /\ ShouldYield(t, prev)
          /\ curr' = t
          /\ w' = word
          /\ drawn' = drawn \cup {word}
          /\ sinceClear' = sinceClear \cup {word}
    /\ i' = i + 1
    /\ pc' = "await"
    /\ ev' = NoEvent
    /\ UNCHANGED <<noMatchWords, items, token, prev, iter, result, exit, wake,
                   call>>
    /\ UNCHANGED locals

\* waitImmediate() resolves, at some time not before the reading of line 321:
\* lines 324-341
Resume ==
    /\ pc = "await"
    /\ \E t \in {curr} \cup TimePoints : t >= curr /\ wake' = t
    /\ prev' = curr
    /\ IF ShouldStop(token, curr, start)
       THEN StopAtCheck
       ELSE ExamineCandidate(w)
    /\ w' = Empty
    /\ UNCHANGED <<curr, i, iter, token, drawn, sinceClear, call>>
    /\ UNCHANGED locals

\* The outer loop takes the next iterable (line 317): at the start of the
\* call, or when the iterator of the current one is done.
NextIterable ==
    /\ pc = "loop"
    /\ iter < MaxIter
    /\ iter' = iter + 1
    /\ ev' = NoEvent
    /\ UNCHANGED <<noMatchWords, pc, items, token, prev, curr, i, w, result,
                   exit, drawn, sinceClear, wake, call>>
    /\ UNCHANGED locals

\* There is no further iterable: line 344.
ReturnFalse ==
    /\ pc = "loop"
    /\ pc' = "done"
    /\ result' = FALSE
    /\ exit' = "end"
    /\ ev' = NoEvent
    /\ UNCHANGED <<noMatchWords, items, token, prev, curr, i, iter, w, drawn,
                   sinceClear, wake, call>>
    /\ UNCHANGED locals

\* the CompleteDone handler without its clear()
CompleteDoneKeeps ==
    /\ pc # "loop"
    /\ noMatchWords' = noMatchWords
    /\ session' = IF pc = "await" THEN "ext" ELSE "fresh"
    /\ sinceClear' = IF pc = "await" THEN {w} ELSE {}
    /\ UNCHANGED <<pc, input, exclude, items, token, firstMatch, start, prev,
                   curr, i, iter, w, result, exit, ev, drawn, items0, token0,
                   wake, call>>

\* the CompleteDone handler (lines 202-204)
CompleteDone ==
    /\ pc # "loop"
    /\ noMatchWords' = {}
    /\ session' = IF pc = "await" THEN "ext" ELSE "fresh"
    /\ sinceClear' = IF pc = "await" THEN {w} ELSE {}
    /\ UNCHANGED <<pc, input, exclude, items, token, firstMatch, start, prev,
                   curr, i, iter, w, result, exit, ev, drawn, items0, token0,
                   wake, call>>

\* the owner of the token requests cancellation while the scan is suspended
Cancel ==
    /\ pc = "await"
    /\ ~token
    /\ token' = TRUE
    /\ UNCHANGED <<noMatchWords, pc, items, prev, curr, i, iter, w, result,
                   exit, ev, drawn, sinceClear, wake, call>>
    /\ UNCHANGED locals

ScanStep == Step \/ Yield \/ Resume \/ NextIterable \/ ReturnFalse

Next ==
    \/ StartScan
    \/ Step
    \/ Yield
    \/ Resume
    \/ NextIterable
    \/ ReturnFalse
    \/ CompleteDone
    \/ Cancel

Spec == Init /\ [][Next]_vars

(***************************************************************************)
(* A completion session: getResults is called again and again on the same  *)
(* source, each call after the one before has returned, with              *)
(* CompleteDone events in between and during suspensions.                  *)
(***************************************************************************)
NextScan ==
    /\ pc \in {"idle", "done"}
    /\ \E inp \in Inputs, fm \in BOOLEAN :
          Call(inp, Empty, {}, fm, FALSE)

SessionNext ==
    \/ NextScan
    \/ Step
    \/ Yield
    \/ Resume
    \/ NextIterable
    \/ ReturnFalse
    \/ CompleteDone
    \/ Cancel

SessionSpec == Init /\ [][SessionNext]_vars

(***************************************************************************)
(* Return value.                                                           *)
(***************************************************************************)
Returned == pc = "done"
\* the last step added a word that took items to MAX_COUNT words
CapHit == ev.kind = "add" /\ Cardinality(items) = MAX_COUNT
\* the candidate counted last fell on a periodic check that saw the token
\* signaled or the time budget exceeded
CheckHit ==
    i > 0 /\ CheckDue(i) /\ (token \/ curr - start > MAX_DURATION)

\* C1: scan returns false exactly when the iterables are exhausted and no
\* stop condition fired, and true exactly when it stopped at one of them: an
\* add that took the accumulator to the maximum (also on the last candidate
\* of the last iterable), or a periodic check that found the time budget
\* exceeded or the token signaled.
C1_ReturnValue ==
    /\ Returned =>
          /\ result = FALSE <=> exit = "end"
          /\ result = TRUE <=> exit \in {"count", "check"}
          /\ exit = "count" <=> CapHit
          /\ exit = "check" <=> CheckHit
    /\ CapHit => Returned /\ result = TRUE
    /\ CheckHit => pc = "await" \/ (Returned /\ result = TRUE)

C1_Witness ==
    /\ Returned /\ result = TRUE /\ exit = "count"
    /\ items0 = {} \/ Cardinality(items0) = MAX_COUNT - 1
    /\ Cardinality(items) = MAX_COUNT
    /\ iter = MaxIter

(***************************************************************************)
(* The cap.                                                                *)
(***************************************************************************)
\* C2: whenever scan adds a word and the accumulator then holds the maximum
\* or more, scan returns true at once; so no word is ever added to an
\* accumulator that already held the maximum.
C2_CapFromAnySeed ==
    ev.kind = "add" /\ Cardinality(items) >= MAX_COUNT
        => Returned /\ result = TRUE /\ Cardinality(items) = MAX_COUNT

(***************************************************************************)
(* Cancellation before the call.                                           *)
(***************************************************************************)
\* C3 as stated: with a token signaled before the call, scan returns true
\* whatever the iterables hold.
C3_PreSignaledAlwaysTrue == Returned /\ token0 => result = TRUE

\* C3, amended: with a token signaled before the call, scan goes no further
\* than the first periodic check and returns true there; when the iterables
\* hold fewer candidates than the check interval the token is never read, and
\* scan returns true only if the cap is hit and false otherwise.
C3_PreSignaled ==
    token0 /\ pc # "idle" =>
        /\ i <= CHECK_INTERVAL
        /\ i = CHECK_INTERVAL => pc = "await" \/ (Returned /\ exit = "check")
        /\ Returned /\ i < CHECK_INTERVAL => (result = TRUE <=> CapHit)
        /\ Returned /\ exit = "check" => result = TRUE

C3_Witness ==
    /\ token0 /\ Returned /\ result = TRUE /\ exit = "check"
    /\ i = CHECK_INTERVAL
    /\ curr - start <= MAX_DURATION

(***************************************************************************)
(* The negative-match memory.                                              *)
(***************************************************************************)
Running == pc \in {"loop", "await"}

\* the step examines a candidate (lines 328-341): it counts one, or resumes
\* with the one held across the await, and does not stop at the check
Examines ==
    /\ i' = i + 1 \/ (pc = "await" /\ pc' # "await")
    /\ ev'.kind # "none"

\* the match test of lines 329-338 on `word`
MatchTest(word, inp, fm) ==
    LET firstCode == inp[1]
        ascii == firstCode < ASCII_END
    IN  /\ fm => firstMatchFuzzy(firstCode, ascii, word)
        /\ Len(inp) > 1 => fuzzyMatch(getCharCodes(inp), FuzzyText(ascii, word))

\* C4: between the start of a scan and its return, suspensions included,
\* nothing is removed from the negative-match memory.
C4_NeverClearedMidScan ==
    [][Running => noMatchWords \subseteq noMatchWords']_vars

\* C5: a candidate that is in the negative-match memory when it is drawn, in
\* the same scan or a later one, is passed to neither matcher.
C5_NoRetest ==
    [][Examines /\ ev'.w \in noMatchWords
          => ~ev'.first /\ ~ev'.fuzzy /\ ev'.kind = "skip"]_vars

\* a word recorded by an earlier scan is skipped by the scan of an input it
\* would match
C5_Witness ==
    /\ pc = "loop" /\ ev.kind = "skip" /\ ev.w \in noMatchWords
    /\ Len(ev.w) > 1 /\ ev.w # exclude /\ ev.w \notin items
    /\ MatchTest(ev.w, input, firstMatch)

\* C6 as stated: whatever the inputs of the scans of a session, every word in
\* the negative-match memory fails the match test of the scan in progress.
C6_MemoryFailsCurrentInput ==
    Running => \A x \in noMatchWords : ~MatchTest(x, input, firstMatch)

\* C6, amended: every word in the negative-match memory fails the match test
\* of the scan in progress, provided every scan since the memory was last
\* cleared (one that was suspended when it was cleared included) had an input
\* extending the input of the scan before it and the same first-match-only
\* setting.
C6_MemoryFailsExtendedInput ==
    Running /\ session = "ext"
        => \A x \in noMatchWords : ~MatchTest(x, input, firstMatch)

\* a scan of a longer input starts with words recorded for a shorter one
C6_Witness ==
    /\ pc = "loop" /\ i = 0 /\ session = "ext"
    /\ noMatchWords # {}
    /\ Len(input) > 1

(***************************************************************************)
(* The skip rule and the two matchers.                                     *)
(***************************************************************************)
\* C7: a candidate of length <= 1, equal to exclude, already in the
\* accumulator or already in the negative-match memory is passed to neither
\* matcher and written to neither set; so scan never adds exclude or a word
\* of length <= 1.
C7_SkipRule ==
    /\ [][Examines /\ ( \/ Len(ev'.w) <= 1
                        \/ ev'.w = exclude
                        \/ ev'.w \in items
                        \/ ev'.w \in noMatchWords )
            => /\ ~ev'.first /\ ~ev'.fuzzy
               /\ noMatchWords' = noMatchWords
               /\ items' = items]_vars
    /\ [](\A x \in items \ items0 : Len(x) > 1 /\ x # exclude)

\* exclude itself is drawn, would match, and is skipped
C7_Witness ==
    /\ ev.kind = "skip" /\ ev.w = exclude
    /\ MatchTest(ev.w, input, firstMatch)
    /\ ev.w \notin items /\ ev.w \notin noMatchWords

\* C8 as stated: for an input of length 1, with first-match-only on or off,
\* a candidate that is not skipped is added iff firstMatchFuzzy holds of it,
\* and fuzzyMatch is not called.
C8_SingleCharAnyConfig ==
    Len(input) = 1 /\ ev.kind \notin {"none", "skip"}
        => /\ ev.kind = "add"
                <=> firstMatchFuzzy(input[1], input[1] < ASCII_END, ev.w)
           /\ ~ev.fuzzy

\* C8, amended: for an input of length 1 fuzzyMatch is never called; with
\* first-match-only on, a candidate that is not skipped is added iff
\* firstMatchFuzzy holds of it; with first-match-only off firstMatchFuzzy is
\* not called either and every candidate that is not skipped is added.
C8_SingleChar ==
    Len(input) = 1 /\ ev.kind \notin {"none", "skip"}
        => /\ ~ev.fuzzy
           /\ ev.first = firstMatch
           /\ firstMatch =>
                (ev.kind = "add"
                    <=> firstMatchFuzzy(input[1], input[1] < ASCII_END, ev.w))
           /\ ~firstMatch => ev.kind = "add"

C8_Witness ==
    /\ Len(input) = 1 /\ firstMatch
    /\ ev.kind = "nofirst"
    /\ \E x \in items \ items0 : firstMatchFuzzy(input[1], input[1] < ASCII_END, x)

(***************************************************************************)
(* The result of a scan that runs to the end.                              *)
(***************************************************************************)
\* the step returns from the call
Returns == pc # "done" /\ pc' = "done"

\* words yielded by the iterables that the claim counts as matching
Candidates == {x \in drawn : Len(x) > 1 /\ x # exclude}
Matching ==
    {x \in Candidates :
        /\ firstMatchFuzzy(input[1], input[1] < ASCII_END, x)
        /\ Len(input) = 1
             \/ fuzzyMatch(getCharCodes(input), FuzzyText(input[1] < ASCII_END, x))}

\* first-match-only on, token never signaled, time budget never exceeded
\* (the negative-match memory is empty at every call of Spec)
Undisturbed == firstMatch /\ ~token /\ curr - start <= MAX_DURATION

\* C9 as stated: under these conditions and with fewer matching words than
\* the cap, scan returns false, the accumulator is its initial content
\* united with the matching words, and every other word of the iterables of
\* length > 1 that differs from exclude and was not in the initial
\* accumulator is in the negative-match memory.
C9_ExhaustiveResult ==
    [][Returns /\ Undisturbed' /\ Cardinality(Matching') < MAX_COUNT
          => /\ result' = FALSE
             /\ items' = items0 \cup Matching'
             /\ (Candidates' \ (items0 \cup Matching')) \subseteq noMatchWords']_vars

\* C9, amended: under these conditions and with the initial accumulator and
\* the matching words together fewer than the cap, scan returns false and
\* the accumulator is its initial content united with the matching words;
\* every other word of length > 1 that differs from exclude, was not in the
\* initial accumulator and was yielded since the negative-match memory was
\* last cleared (every such word of the iterables, when no session-ended
\* event fell into a suspension of the scan) is in the negative-match memory.
C9_ExhaustiveResultBelowCap ==
    [][Returns /\ Undisturbed' /\ Cardinality(items0 \cup Matching') < MAX_COUNT
          => /\ result' = FALSE
             /\ items' = items0 \cup Matching'
             /\ ((Candidates' \cap sinceClear') \ (items0 \cup Matching'))
                   \subseteq noMatchWords'
             /\ noMatchWords' \subseteq Candidates' \ Matching']_vars

\* iterables yielding foo, far and bar, input "f", no exclude, empty
\* accumulator: {foo, far} and false; bar is in the negative-match memory
C9_Witness ==
    /\ Returned /\ result = FALSE /\ firstMatch
    /\ input = W_f /\ exclude = Empty /\ items0 = {}
    /\ drawn = {W_foo, W_far, W_bar}
    /\ items = {W_foo, W_far}
    /\ noMatchWords = {W_bar}

(***************************************************************************)
(* Frame.                                                                  *)
(***************************************************************************)
\* C10: every step of scan leaves the accumulator and the negative-match
\* memory supersets of what they were; the accumulator holds its initial
\* content on every exit path, and its size never decreases.
C10_OnlyAdds ==
    /\ [][ScanStep => /\ items \subseteq items'
                      /\ noMatchWords \subseteq noMatchWords'
                      /\ Cardinality(items) <= Cardinality(items')]_vars
    /\ [](pc # "idle" => items0 \subseteq items)

\* a scan that stopped at a periodic check keeps what it had and what it added
C10_Witness ==
    /\ Returned /\ exit = "check"
    /\ items0 # {} /\ items0 \subseteq items /\ items # items0
    /\ noMatchWords # {}

(***************************************************************************)
(* The matchers on their own.  firstMatchFuzzy is exported and may be      *)
(* called with any first code, flag and word; the match test of lines      *)
(* 329-338 and the text handed to fuzzyMatch (line 334) are applied to     *)
(* arguments drawn from the sets below.                                    *)
(***************************************************************************)
FirstCodes == {102, 70, 116, 101, 95, 36, 45, 233, 128}
    \* f F t e _ $ - e-acute U+0080

CallWords ==
    { <<95>>, <<36>>, <<45>>, <<102>>, <<230>>,          \* _ $ - f ae-ligature
      W_foo, W_bar, <<70, 111, 111>>,                    \* foo bar Foo
      <<95, 102, 111, 111>>, <<36, 102, 111, 111>>,      \* _foo $foo
      <<45, 70, 111, 111>>, <<95, 95, 102>>,             \* -Foo __f
      <<95, 116, 101, 115, 116>>,                        \* _test
      <<95, 233>>, <<233, 97>>, <<95, 128>>,             \* _e-acute, e-acute a
      <<128, 101, 233>>, <<129, 101, 233>> }             \* U+0080/U+0081 e e-acute

CallInputs ==
    { W_f, W_fo, W_foo, <<70>>, <<70, 111>>, W_b, <<101>>, <<101, 101>>,
      <<233>>, <<233, 97>>, <<95>>, <<95, 102>> }

Pending == [outcome |-> "pending"]

FirstMatchFuzzyArgs ==
    [firstCode : FirstCodes, ascii : BOOLEAN, word : CallWords]

MatchTestArgs ==
    {a \in [p : CallInputs, q : CallInputs, word : CallWords, fm : BOOLEAN] :
        IsPrefix(a.p, a.q)}

FuzzyTextArgs == [ascii : BOOLEAN, word : CallWords]

\* the source is constructed and the arguments of one call are chosen
MatchInit ==
    /\ Constructed
    /\ \/ \E a \in FirstMatchFuzzyArgs :
             call = [fn |-> "firstMatchFuzzy", args |-> a, ret |-> Pending]
       \/ \E a \in MatchTestArgs :
             call = [fn |-> "matchTest", args |-> a, ret |-> Pending]
       \/ \E a \in FuzzyTextArgs :
             call = [fn |-> "fuzzyText", args |-> a, ret |-> Pending]

scanVars ==
    <<noMatchWords, pc, input, exclude, items, token, firstMatch, start, prev,
      curr, i, iter, w, result, exit, ev, drawn, items0, token0, sinceClear,
      session, wake>>

\* firstMatchFuzzy(firstCode, ascii, word), lines 352-357: what the call ends
\* in and, when it returns, the text whose first code was compared
ApplyFirstMatchFuzzy ==
    /\ call.fn = "firstMatchFuzzy"
    /\ call.ret.outcome = "pending"
    /\ LET a == call.args
       IN  call' = [call EXCEPT !.ret =
                [outcome |-> firstMatchFuzzyOutcome(a.firstCode, a.ascii, a.word),
                 ch |-> IF firstMatchFuzzyThrows(a.firstCode, a.ascii, a.word)
                        THEN <<>>
                        ELSE firstMatchFuzzyCompared(a.firstCode, a.ascii,
                                                     a.word)]]
    /\ UNCHANGED scanVars

\* lines 328-340 on `word` for the inputs p and q, with nothing excluded,
\* accumulated or remembered
ApplyMatchTest ==
    /\ call.fn = "matchTest"
    /\ call.ret.outcome = "pending"
    /\ LET a == call.args
       IN  call' = [call EXCEPT !.ret =
                [outcome |-> "returned",
                 forP |-> Examine(a.word, a.p, Empty, a.fm, {}, {}).kind,
                 forQ |-> Examine(a.word, a.q, Empty, a.fm, {}, {}).kind]]
    /\ UNCHANGED scanVars

\* the second argument of fuzzyMatch at line 334
ApplyFuzzyText ==
    /\ call.fn = "fuzzyText"
    /\ call.ret.outcome = "pending"
    /\ LET a == call.args
       IN  call' = [call EXCEPT !.ret =
                [outcome |-> "returned",
                 text |-> FuzzyText(a.ascii, a.word)]]
    /\ UNCHANGED scanVars

MatchNext ==
    \/ ApplyFirstMatchFuzzy
    \/ ApplyMatchTest
    \/ ApplyFuzzyText

MatchSpec == MatchInit /\ [][MatchNext]_vars

FirstMatchFuzzyReturned ==
    /\ call.fn = "firstMatchFuzzy"
    /\ call.ret.outcome \in {"true", "false"}

\* the comparison of lines 355-356 applied to the character c
CompareChar(firstCode, ascii, c) ==
    caseMatch(firstCode,
              charCodeAt0(IF ascii /\ c > ASCII_END THEN unidecode(<<c>>)
                          ELSE <<c>>))

\* C11 as stated: for every input first code, ASCII or not, and every
\* candidate of length >= 2, firstCharPlausible compares the input's first
\* code with the candidate's second character when the candidate starts with
\* '_', '$' or '-' and the input's first code is none of 95, 36, 45, and with
\* the candidate's first character otherwise.
C11_PrefixSkipAnyInput ==
    (/\ FirstMatchFuzzyReturned
     /\ Len(call.args.word) >= 2
     /\ call.args.ascii = (call.args.firstCode < ASCII_END))
    => LET a == call.args
           skip == /\ a.word[1] \in WORD_PREFIXES
                   /\ a.firstCode \notin WORD_PREFIXES_CODE
       IN  (call.ret.outcome = "true")
             = CompareChar(a.firstCode, a.ascii,
                           IF skip THEN a.word[2] ELSE a.word[1])

\* C11, amended: the second character is compared only when, in addition,
\* the input's first code is ASCII (below 128); for a non-ASCII input the
\* first character is compared, prefix or not.
C11_PrefixSkip ==
    (/\ FirstMatchFuzzyReturned
     /\ Len(call.args.word) >= 2
     /\ call.args.ascii = (call.args.firstCode < ASCII_END))
    => LET a == call.args
           skip == /\ a.firstCode < ASCII_END
                   /\ a.word[1] \in WORD_PREFIXES
                   /\ a.firstCode \notin WORD_PREFIXES_CODE
       IN  (call.ret.outcome = "true")
             = CompareChar(a.firstCode, a.ascii,
                           IF skip THEN a.word[2] ELSE a.word[1])

\* "_test" is plausible for the input "t"
C11_Witness ==
    /\ call.fn = "firstMatchFuzzy"
    /\ call.args = [firstCode |-> 116, ascii |-> TRUE,
                    word |-> <<95, 116, 101, 115, 116>>]
    /\ call.ret.outcome = "true"

(***************************************************************************)
(* The match test on a pair of inputs.                                     *)
(***************************************************************************)
Fails(kind) == kind \in {"nofirst", "nofuzzy"}

\* C12: for inputs p and q with p a non-empty prefix of q, every word and a
\* fixed first-match-only setting, a word that fails the scan's match test
\* for p fails it for q.
C12_FailureExtends ==
    (call.fn = "matchTest" /\ call.ret.outcome = "returned")
    => (Fails(call.ret.forP) => Fails(call.ret.forQ))

\* "bar" fails for "f" and for "fo", on its first character
C12_Witness ==
    /\ call.fn = "matchTest" /\ call.ret.outcome = "returned"
    /\ call.args.word = W_bar /\ call.args.p = W_f /\ call.args.q = W_fo
    /\ call.args.fm
    /\ call.ret.forP = "nofirst" /\ call.ret.forQ = "nofirst"

(***************************************************************************)
(* Cancellation, time budget, suspension.                                  *)
(***************************************************************************)
\* C13: once the token is signaled -- before the scan starts, or while it is
\* suspended -- the scan examines at most CHECK_INTERVAL - 1 candidates,
\* counted over all iterables, and adds no word drawn at or after the next
\* periodic check; signaled during a suspension, the scan returns true when
\* it resumes and examines nothing.
C13_BoundedCancellation ==
    /\ [][token /\ Examines => token0 /\ i' < CHECK_INTERVAL]_vars
    /\ [][token /\ Running /\ items' # items
            => token0 /\ i' < CHECK_INTERVAL /\ items' = items \cup {ev'.w}]_vars
    /\ [][token /\ ~token0 /\ pc = "await" /\ pc' # "await"
            => /\ pc' = "done" /\ result' = TRUE
               /\ ev' = NoEvent /\ i' = i
               /\ items' = items /\ noMatchWords' = noMatchWords]_vars
    /\ [](token /\ ~token0 => pc = "await" \/ (Returned /\ exit = "check"))

\* signaled during a suspension within the time budget: returned true at
\* the check, the candidate in hand not examined
C13_Witness ==
    /\ token /\ ~token0
    /\ Returned /\ result = TRUE /\ exit = "check"
    /\ curr - start <= MAX_DURATION
    /\ CheckDue(i) /\ ev = NoEvent

\* the latest periodic check read a time beyond the duration budget
TimeHit == i > 0 /\ CheckDue(i) /\ curr - start > MAX_DURATION

\* C14 as stated: at every periodic check at which the time elapsed since
\* the scan began exceeds the duration budget the scan returns true at that
\* check, with no candidate examined and no suspension between the check and
\* the return.
C14_StopsAtOnce ==
    /\ [](TimeHit => Returned /\ result = TRUE /\ exit = "check")
    /\ [][TimeHit' /\ i' = i + 1 => ev' = NoEvent]_vars

\* C14, amended: the scan returns true for that check with no candidate
\* examined; it returns at once when no more than the slice has elapsed
\* since the last yield point, and otherwise first suspends at the yield and
\* returns true when it resumes.
C14_StopsAfterYield ==
    /\ [](TimeHit => pc = "await" \/ (Returned /\ result = TRUE /\ exit = "check"))
    /\ [][TimeHit' /\ i' = i + 1
            => /\ ev' = NoEvent
               /\ items' = items /\ noMatchWords' = noMatchWords
               /\ (pc' = "await") = (curr' - prev > SLICE)]_vars
    /\ [][TimeHit /\ pc = "await" /\ pc' # "await"
            => /\ pc' = "done" /\ result' = TRUE /\ exit' = "check"
               /\ ev' = NoEvent /\ i' = i
               /\ items' = items /\ noMatchWords' = noMatchWords]_vars

\* budget exceeded at the first check of a scan whose token is not signaled:
\* returned true after the suspension
C14_Witness ==
    /\ Returned /\ result = TRUE /\ exit = "check"
    /\ ~token
    /\ i = CHECK_INTERVAL
    /\ curr - start > MAX_DURATION
    /\ prev = curr

(***************************************************************************)
(* What the scan adds.                                                     *)
(***************************************************************************)
\* C15: every word the scan adds, on every exit path, was drawn from an
\* iterable, is longer than one character, differs from exclude, was not in
\* the negative-match memory when it was added, passes firstMatchFuzzy when
\* firstMatch is on and fuzzyMatch when the input is longer than one
\* character; no word is both added and recorded by the same scan.
C15_AddedWords ==
    /\ [](pc # "idle" =>
            \A x \in items \ items0 :
                /\ x \in drawn
                /\ Len(x) > 1
                /\ x # exclude
                /\ MatchTest(x, input, firstMatch)
                /\ x \notin noMatchWords)
    /\ [][Running /\ items' # items => Examines /\ ev'.kind = "add"]_vars
    /\ [][Examines /\ ev'.kind = "add"
            => /\ ev'.w \notin noMatchWords
               /\ ev'.w \notin items
               /\ items' = items \cup {ev'.w}
               /\ noMatchWords' = noMatchWords]_vars
    /\ [][Examines /\ Fails(ev'.kind)
            => /\ ~MatchTest(ev'.w, input, firstMatch)
               /\ ev'.w \notin items'
               /\ noMatchWords' = noMatchWords \cup {ev'.w}]_vars

\* stopped at the cap by an added word, other words having been recorded
C15_Witness ==
    /\ Returned /\ exit = "count"
    /\ ev.kind = "add" /\ ev.w \in items \ items0
    /\ noMatchWords # {}
    /\ Len(input) > 1 /\ firstMatch

(***************************************************************************)
(* Transliteration, totality.                                              *)
(***************************************************************************)
\* C16: whenever the input is ASCII (first code below 128) and the candidate
\* character compared has a code above 127, firstMatchFuzzy compares the
\* transliteration of that character; and whenever the input is ASCII and
\* the candidate's leading character has a code above 127, the text handed
\* to fuzzyMatch is the transliteration of the candidate.
C16_TransliteratesAbove127 ==
    /\ (/\ FirstMatchFuzzyReturned
        /\ call.args.ascii /\ call.args.firstCode < ASCII_END)
       => LET a == call.args
              c == firstMatchFuzzyCh(a.firstCode, a.ascii, a.word)
          IN  c[1] >= ASCII_END => call.ret.ch = unidecode(c)
    /\ (/\ call.fn = "fuzzyText" /\ call.ret.outcome = "returned"
        /\ call.args.ascii)
       => (call.args.word[1] >= ASCII_END
             => call.ret.text = unidecode(call.args.word))

(***************************************************************************)
(* Where the scan suspends.                                                *)
(***************************************************************************)
\* lines 328-340 are through with the word: skipped, recorded or added
Processed(x) ==
    Len(x) <= 1 \/ x = exclude \/ x \in items \/ x \in noMatchWords

\* C17: the scan suspends only at the periodic check.  In every suspended
\* state the number of candidates drawn is a positive multiple of the check
\* interval, every candidate drawn before is completely processed, and the
\* candidate just drawn has had no effect on either set.
C17_SuspendsOnlyAtCheck ==
    /\ [](pc = "await" => /\ i > 0 /\ i % CHECK_INTERVAL = 0
                          /\ ev = NoEvent
                          /\ w \in drawn
                          /\ \A x \in sinceClear : x = w \/ Processed(x))
    /\ [][pc # "await" /\ pc' = "await"
            => /\ pc = "loop" /\ i' = i + 1
               /\ \A x \in sinceClear : Processed(x)
               /\ items' = items /\ noMatchWords' = noMatchWords]_vars
    /\ [][pc = "await" /\ pc' = "await"
            => /\ items' = items
               /\ noMatchWords' \in {noMatchWords, {}}
               /\ i' = i /\ w' = w]_vars

\* suspended at the second check, with words added and recorded before and
\* the candidate in hand in neither set
C17_Witness ==
    /\ pc = "await"
    /\ i = 2 * CHECK_INTERVAL
    /\ items # items0 /\ noMatchWords # {}
    /\ Len(w) > 1 /\ w # exclude /\ w \notin items /\ w \notin noMatchWords

\* the step draws the candidate on which the periodic check falls
CheckStep == pc = "loop" /\ i' = i + 1 /\ CheckDue(i')

\* C18 as stated: at every periodic check the scan suspends if and only if
\* more than the slice has elapsed since the last yield point (since the scan
\* began, when it has not yielded); the time spent suspended does not count
\* towards the next slice, i.e. the slice runs from the resumption.
C18_SliceSinceResumption ==
    [][CheckStep => ((pc' = "await") = (curr' - wake > SLICE))]_vars

\* C18, amended: the slice runs from the clock reading of the last check
\* that suspended (from the start of the scan, before the first one), so
\* the time spent suspended counts towards the next slice.
C18_SliceSinceReading ==
    /\ [][CheckStep => ((pc' = "await") = (curr' - prev > SLICE))]_vars
    /\ [][pc = "await" /\ pc' # "await"
            => prev' = curr /\ curr' = curr /\ prev' <= wake']_vars
    /\ [][pc = "loop" /\ pc' # "idle" => prev' = prev]_vars
    /\ [](pc # "idle" /\ i < CHECK_INTERVAL => prev = start)

\* suspended at the second check although no more than the slice has
\* elapsed since the scan resumed from the first
C18_Witness ==
    /\ pc = "await"
    /\ i = 2 * CHECK_INTERVAL
    /\ prev > start
    /\ curr - prev > SLICE
    /\ curr - wake <= SLICE

\* C19: firstMatchFuzzy is total: for every first code, ASCII flag and word
\* of length >= 1, a one-character '_', '$' or '-' included, the call returns
\* a boolean and does not end in an error.
C19_Total ==
    (/\ call.fn = "firstMatchFuzzy"
     /\ call.ret.outcome # "pending"
     /\ Len(call.args.word) >= 1)
    => call.ret.outcome \in {"true", "false"}

(***************************************************************************)
(* Termination.  JavaScript runs getResults without interruption up to     *)
(* its await or its return, so the steps of the loop are taken as long as  *)
(* they are possible; the host resumes a scan that waits on                *)
(* waitImmediate().  Every iterable is finite: a scan draws at most        *)
(* MaxDraw candidates from at most MaxIter iterables.                      *)
(***************************************************************************)
RunsOn == Step \/ Yield \/ NextIterable \/ ReturnFalse

\* one call, with or without first-match-only, one or two characters of
\* input, the accumulator empty or one word short of the cap
StartFair ==
    /\ pc = "idle"
    /\ \E inp \in {W_f, W_fo}, seed \in {{}, Seed(MAX_COUNT - 1)},
          fm \in BOOLEAN :
          Call(inp, Empty, seed, fm, FALSE)

FairNext ==
    \/ StartFair
    \/ Step
    \/ Yield
    \/ Resume
    \/ NextIterable
    \/ ReturnFalse
    \/ CompleteDone
    \/ Cancel

FairSpec ==
    Init /\ [][FairNext]_vars /\ WF_vars(RunsOn) /\ WF_vars(Resume)

\* C20: when the host resumes the scan after each yield, every call of scan
\* over finite iterables returns, true or false, and never ends in an error;
\* each resumption is followed by the draw of a new candidate or the return.
C20_Terminates ==
    /\ [](pc # "error")
    /\ Running ~> Returned
    /\ [][pc = "await" /\ pc' # "await" => pc' \in {"loop", "done"}]_vars
    /\ pc = "loop" ~> pc \in {"await", "done"}
    /\ [][pc = "loop" /\ pc' = "await" => i' = i + 1]_vars

\* a scan that was suspended, was resumed some time later, went on to the
\* end of its iterables and returned false
C20_Witness ==
    /\ Returned /\ result = FALSE /\ exit = "end"
    /\ i = MaxDraw
    /\ prev > start
    /\ wake > prev

====
